---- MODULE Spec2Model ----
(***************************************************************************)
(* Model of datastructure.py: the Datastructure wrapper around nested      *)
(* dict / list / tuple data, its path resolver, the get / set / contains / *)
(* delete accessors and the pattern iteration engine.                      *)
(*                                                                         *)
(* Python strings are sequences of one-character strings, so that split,   *)
(* join, str(), int() and isdigit() are computed and not assumed.          *)
(* Python values are records tagged by their type in field t.              *)
(***************************************************************************)
EXTENDS Integers, Sequences, FiniteSets, TLC

\* ------------------------------------------------------------------------
\* Bounds of the model
\* ------------------------------------------------------------------------

\* number of mutating calls (set / delete) issued in one behaviour
MaxOps == 1

\* ------------------------------------------------------------------------
\* Python strings
\* ------------------------------------------------------------------------

DigitChars == <<"0", "1", "2", "3", "4", "5", "6", "7", "8", "9">>

DigitVal(c) == (CHOOSE i \in 1..Len(DigitChars) : DigitChars[i] = c) - 1

\* str.isdigit(): non-empty and every character is a digit
isdigit(s) == Len(s) > 0 /\ \A i \in 1..Len(s) : \E j \in 1..Len(DigitChars) : DigitChars[j] = s[i]

\* int(s) for a string of digits (leading zeros are accepted by Python)
RECURSIVE int(_)
int(s) == IF Len(s) = 0 THEN 0 ELSE 10 * int(SubSeq(s, 1, Len(s) - 1)) + DigitVal(s[Len(s)])

\* str(n) for an integer
RECURSIVE str(_)
str(n) ==
    IF n < 0 THEN <<"-">> \o str(0 - n)
    ELSE IF n < 10 THEN <<DigitChars[n + 1]>>
    ELSE str(n \div 10) \o <<DigitChars[(n % 10) + 1]>>

\* s.split(sep): empty segments are kept, the result has at least one part
RECURSIVE split(_, _)
split(s, sep) ==
    LET hits == {i \in 1..(Len(s) - Len(sep) + 1) : SubSeq(s, i, i + Len(sep) - 1) = sep}
    IN  IF hits = {} THEN <<s>>
        ELSE LET i == CHOOSE h \in hits : \A g \in hits : h <= g
             IN  <<SubSeq(s, 1, i - 1)>> \o split(SubSeq(s, i + Len(sep), Len(s)), sep)

\* sep.join(parts)
RECURSIVE join(_, _)
join(parts, sep) ==
    IF Len(parts) = 0 THEN <<>>
    ELSE IF Len(parts) = 1 THEN parts[1]
    ELSE parts[1] \o sep \o join(Tail(parts), sep)

\* ------------------------------------------------------------------------
\* Python values
\* ------------------------------------------------------------------------

None == [t |-> "none"]
IntV(n) == [t |-> "int", n |-> n]
StrV(s) == [t |-> "str", s |-> s]
BoolV(b) == [t |-> "bool", b |-> b]
ListV(items) == [t |-> "list", items |-> items]
TupleV(items) == [t |-> "tuple", items |-> items]
\* a dict is its entries in insertion order
DictV(entries) == [t |-> "dict", entries |-> entries]
\* one (key, value) pair, as yielded by the pattern engine
Pair(k, v) == [k |-> k, v |-> v]

\* class attribute CONTAINER_TYPES_SUPPORTED (the wrapper class itself, which
\* __init__ adds, only matters for the constructor argument)
CONTAINER_TYPES_SUPPORTED == {"dict", "list", "tuple"}

\* bool(v)
Truthy(v) ==
    CASE v.t = "none" -> FALSE
      [] v.t = "int" -> v.n # 0
      [] v.t = "str" -> Len(v.s) > 0
      [] v.t = "bool" -> v.b
      [] v.t = "dict" -> Len(v.entries) > 0
      [] OTHER -> Len(v.items) > 0

\* len(v) of a container
PyLen(v) == IF v.t = "dict" THEN Len(v.entries) ELSE Len(v.items)

\* outcome of a call: the exception raised ("" when none) and the value returned
Ok(v) == [exc |-> "", val |-> v]
Raise(e) == [exc |-> e, val |-> None]

HasKey(d, k) == \E i \in 1..Len(d.entries) : d.entries[i].k = k
KeyPos(d, k) == CHOOSE i \in 1..Len(d.entries) : d.entries[i].k = k

\* type(d).__getitem__(d, k)
type_getitem(d, k) ==
    CASE d.t = "dict" ->
            IF HasKey(d, k) THEN Ok(d.entries[KeyPos(d, k)].v) ELSE Raise("KeyError")
      [] d.t \in {"list", "tuple"} ->
            IF k.t # "int" THEN Raise("TypeError")
            ELSE IF k.n < Len(d.items) THEN Ok(d.items[k.n + 1])
            ELSE Raise("IndexError")
      [] d.t = "str" ->
            IF k.t # "int" THEN Raise("TypeError")
            ELSE IF k.n < Len(d.s) THEN Ok(StrV(<<d.s[k.n + 1]>>))
            ELSE Raise("IndexError")
      [] OTHER -> Raise("AttributeError")

\* type(d).__contains__(d, k): key membership for a dict, element membership
\* for a list or a tuple
type_contains(d, k) ==
    CASE d.t = "dict" -> Ok(BoolV(HasKey(d, k)))
      [] d.t \in {"list", "tuple"} -> Ok(BoolV(\E i \in 1..Len(d.items) : d.items[i] = k))
      [] d.t = "str" -> IF k.t # "str" THEN Raise("TypeError")
                        ELSE Ok(BoolV(\E i \in 0..(Len(d.s) - Len(k.s)) :
                                          SubSeq(d.s, i + 1, i + Len(k.s)) = k.s))
      [] OTHER -> Raise("AttributeError")

\* type_setitem with an existing dict key keeping its old value (setdefault)
type_setitem_keep(d, k, value) ==
    CASE d.t = "dict" ->
            IF HasKey(d, k) THEN Ok(d)
            ELSE Ok(DictV(Append(d.entries, Pair(k, value))))
      [] d.t = "list" ->
            IF k.t # "int" THEN Raise("TypeError")
            ELSE IF k.n < Len(d.items) THEN Ok(ListV([d.items EXCEPT ![k.n + 1] = value]))
            ELSE Raise("IndexError")
      [] OTHER -> Raise("AttributeError")

\* type_setitem taking the index one past the end of a list as an append
type_setitem_grow(d, k, value) ==
    CASE d.t = "dict" ->
            IF HasKey(d, k)
            THEN Ok(DictV([d.entries EXCEPT ![KeyPos(d, k)] = Pair(k, value)]))
            ELSE Ok(DictV(Append(d.entries, Pair(k, value))))
      [] d.t = "list" ->
            IF k.t # "int" THEN Raise("TypeError")
            ELSE IF k.n < Len(d.items) THEN Ok(ListV([d.items EXCEPT ![k.n + 1] = value]))
            ELSE IF k.n = Len(d.items) THEN Ok(ListV(Append(d.items, value)))
            ELSE Raise("IndexError")
      [] OTHER -> Raise("AttributeError")

\* the container after type(d).__setitem__(d, k, value), or the exception
type_setitem(d, k, value) ==
    CASE d.t = "dict" ->
            IF HasKey(d, k)
            THEN Ok(DictV([d.entries EXCEPT ![KeyPos(d, k)] = Pair(k, value)]))
            ELSE Ok(DictV(Append(d.entries, Pair(k, value))))
      [] d.t = "list" ->
            IF k.t # "int" THEN Raise("TypeError")
            ELSE IF k.n < Len(d.items) THEN Ok(ListV([d.items EXCEPT ![k.n + 1] = value]))
            ELSE Raise("IndexError")
      [] OTHER -> Raise("AttributeError")

\* list_append putting the value in front (insert(0, value))
list_append_front(d, value) ==
    IF d.t = "list" THEN Ok(ListV(<<value>> \o d.items)) ELSE Raise("AttributeError")

\* the container after d.append(value), or the exception
list_append(d, value) ==
    IF d.t = "list" THEN Ok(ListV(Append(d.items, value))) ELSE Raise("AttributeError")

RemoveAt(s, i) == SubSeq(s, 1, i - 1) \o SubSeq(s, i + 1, Len(s))

\* type_delitem removing the last element of a list (pop()) whatever the index
type_delitem_pop(d, k) ==
    CASE d.t = "dict" ->
            IF HasKey(d, k) THEN Ok(DictV(RemoveAt(d.entries, KeyPos(d, k))))
            ELSE Raise("KeyError")
      [] d.t = "list" ->
            IF k.t # "int" THEN Raise("TypeError")
            ELSE IF k.n < Len(d.items) THEN Ok(ListV(RemoveAt(d.items, Len(d.items))))
            ELSE Raise("IndexError")
      [] OTHER -> Raise("AttributeError")

\* the container after type(d).__delitem__(d, k), or the exception
type_delitem(d, k) ==
    CASE d.t = "dict" ->
            IF HasKey(d, k) THEN Ok(DictV(RemoveAt(d.entries, KeyPos(d, k))))
            ELSE Raise("KeyError")
      [] d.t = "list" ->
            IF k.t # "int" THEN Raise("TypeError")
            ELSE IF k.n < Len(d.items) THEN Ok(ListV(RemoveAt(d.items, k.n + 1)))
            ELSE Raise("IndexError")
      [] OTHER -> Raise("AttributeError")

\* ------------------------------------------------------------------------
\* Path resolver
\* ------------------------------------------------------------------------

\* d = data_root or self.data
RootOf(data_root, data) == IF Truthy(data_root) THEN data_root ELSE data

\* the loop of _get_object_and_key from segment i on; loc is the list of the
\* keys followed so far, which identifies the object d inside the structure
RECURSIVE walk(_, _, _, _, _, _)
walk(self, d, loc, keyparts, i, allow_last_element_for_lists) ==
    LET raw == keyparts[i]
        islast == (i = Len(keyparts))
        coerced ==
            IF d.t = "list" THEN
                IF isdigit(raw) THEN Ok(IntV(int(raw)))
                ELSE IF raw = self.symbol_last_list_element /\ islast
                        /\ allow_last_element_for_lists THEN Ok(StrV(raw))
                ELSE Raise("KeyError")
            ELSE IF d.t = "dict" THEN
                IF isdigit(raw) /\ HasKey(d, IntV(int(raw))) THEN Ok(IntV(int(raw)))
                ELSE Ok(StrV(raw))
            ELSE Ok(StrV(raw))
        k == coerced.val
        nxt == type_getitem(d, k)
    IN  IF coerced.exc # "" THEN [exc |-> coerced.exc, d |-> None, loc |-> <<>>, k |-> None]
        ELSE IF islast THEN [exc |-> "", d |-> d, loc |-> loc, k |-> k]
        ELSE IF nxt.exc # "" THEN [exc |-> nxt.exc, d |-> None, loc |-> <<>>, k |-> None]
        ELSE IF nxt.val.t \notin CONTAINER_TYPES_SUPPORTED
             THEN [exc |-> "KeyError", d |-> None, loc |-> <<>>, k |-> None]
        ELSE walk(self, nxt.val, Append(loc, k), keyparts, i + 1, allow_last_element_for_lists)

\* _get_object_and_key called with keyparts (a list of strings from split)
get_object_and_key_parts(self, data, keyparts, data_root, allow_last_element_for_lists) ==
    walk(self, RootOf(data_root, data), <<>>, keyparts, 1, allow_last_element_for_lists)

\* _get_object_and_key called with full_key
get_object_and_key(self, data, full_key, allow_last_element_for_lists) ==
    IF full_key.t \notin {"str", "int"}
    THEN [exc |-> "ValueError", d |-> None, loc |-> <<>>, k |-> None]
    ELSE LET s == IF full_key.t = "int" THEN str(full_key.n) ELSE full_key.s
         IN  walk(self, RootOf(None, data), <<>>, split(s, self.symbol_separator), 1,
                  allow_last_element_for_lists)

\* the structure root with the object at loc replaced by newd: the effect of
\* an in-place change of that object
RECURSIVE Replace(_, _, _)
Replace(root, loc, newd) ==
    IF Len(loc) = 0 THEN newd
    ELSE IF root.t = "dict"
         THEN LET p == KeyPos(root, loc[1])
              IN  DictV([root.entries EXCEPT ![p] = Pair(loc[1], Replace(root.entries[p].v, Tail(loc), newd))])
         ELSE [root EXCEPT !.items[loc[1].n + 1] = Replace(root.items[loc[1].n + 1], Tail(loc), newd)]

\* ------------------------------------------------------------------------
\* The wrapper
\* ------------------------------------------------------------------------

DEFAULT_WILDCARD == <<"*">>
DEFAULT_SEPARATOR == <<".">>
DEFAULT_LAST_LIST_ELEMENT == <<"+">>

\* a constructor argument: a container object of the heap, or a wrapper
ObjectArg(cell) == [kind |-> "object", cell |-> cell]
WrapperArg(w) == [kind |-> "wrapper", w |-> w]

\* Datastructure_init copying the data of a wrapper argument into a new cell
Datastructure_init_copy(hp, data, silent_fail, wildcard, separator, last_list_element) ==
    LET supported == data.kind = "wrapper" \/ hp[data.cell].t \in CONTAINER_TYPES_SUPPORTED
        fresh == (CHOOSE c \in DOMAIN hp : \A b \in DOMAIN hp : b <= c) + 1
        cell == IF data.kind = "wrapper" THEN fresh ELSE data.cell
    IN  [exc |-> IF supported THEN "" ELSE "ValueError",
         heap |-> IF data.kind = "wrapper" THEN hp @@ (fresh :> hp[data.w.data]) ELSE hp,
         self |-> [data |-> cell,
                   silent_fail |-> silent_fail,
                   symbol_wildcard |-> wildcard,
                   symbol_separator |-> separator,
                   symbol_last_list_element |-> last_list_element]]

\* Datastructure.__init__: the new wrapper, the heap after construction and
\* the exception raised; the wrapper keeps a reference (a heap cell), never a
\* copy, and a wrapper argument is unwrapped to the cell it references
Datastructure_init(hp, data, silent_fail, wildcard, separator, last_list_element) ==
    LET supported == data.kind = "wrapper" \/ hp[data.cell].t \in CONTAINER_TYPES_SUPPORTED
        cell == IF data.kind = "wrapper" THEN data.w.data ELSE data.cell
    IN  [exc |-> IF supported THEN "" ELSE "ValueError",
         heap |-> hp,
         self |-> [data |-> cell,
                   silent_fail |-> silent_fail,
                   symbol_wildcard |-> wildcard,
                   symbol_separator |-> separator,
                   symbol_last_list_element |-> last_list_element]]

\* getitem whose silent mode only swallows KeyError (except KeyError:)
getitem_keyerror(self, hp, key) ==
    LET r == get_object_and_key(self, hp[self.data], key, FALSE)
        v == IF r.exc # "" THEN Raise(r.exc) ELSE type_getitem(r.d, r.k)
    IN  IF v.exc = "KeyError" /\ self.silent_fail THEN Ok(None) ELSE v

\* Datastructure.__getitem__
getitem(self, hp, key) ==
    LET r == get_object_and_key(self, hp[self.data], key, FALSE)
        v == IF r.exc # "" THEN Raise(r.exc) ELSE type_getitem(r.d, r.k)
    IN  IF v.exc # "" /\ self.silent_fail THEN Ok(None) ELSE v

\* Datastructure.__setitem__: outcome and heap after the call
setitem(self, hp, key, value) ==
    LET r == get_object_and_key(self, hp[self.data], key, TRUE)
        m == IF r.exc # "" THEN Raise(r.exc)
             ELSE IF r.k = StrV(self.symbol_last_list_element) THEN list_append(r.d, value)
             ELSE type_setitem(r.d, r.k, value)
    IN  IF m.exc = ""
        THEN [exc |-> "", val |-> None,
              heap |-> [hp EXCEPT ![self.data] = Replace(@, r.loc, m.val)]]
        ELSE [exc |-> IF self.silent_fail THEN "" ELSE m.exc, val |-> None, heap |-> hp]

\* Datastructure.__contains__
contains(self, hp, key) ==
    LET r == get_object_and_key(self, hp[self.data], key, FALSE)
        v == IF r.exc # "" THEN Raise(r.exc) ELSE type_contains(r.d, r.k)
    IN  IF v.exc # "" THEN Ok(BoolV(FALSE)) ELSE v

\* delitem following the failure mode: a strict wrapper raises
delitem_strict(self, hp, key) ==
    LET r == get_object_and_key(self, hp[self.data], key, FALSE)
        m == IF r.exc # "" THEN Raise(r.exc) ELSE type_delitem(r.d, r.k)
    IN  IF m.exc = ""
        THEN [exc |-> "", val |-> None,
              heap |-> [hp EXCEPT ![self.data] = Replace(@, r.loc, m.val)]]
        ELSE [exc |-> IF self.silent_fail THEN "" ELSE m.exc,
              val |-> IF self.silent_fail THEN BoolV(FALSE) ELSE None, heap |-> hp]

\* Datastructure.__delitem__: outcome and heap after the call; the result of
\* list.__delitem__ / dict.__delitem__ is None
delitem(self, hp, key) ==
    LET r == get_object_and_key(self, hp[self.data], key, FALSE)
        m == IF r.exc # "" THEN Raise(r.exc) ELSE type_delitem(r.d, r.k)
    IN  IF m.exc = ""
        THEN [exc |-> "", val |-> None,
              heap |-> [hp EXCEPT ![self.data] = Replace(@, r.loc, m.val)]]
        ELSE [exc |-> "", val |-> BoolV(FALSE), heap |-> hp]

\* Datastructure.__len__
len(self, hp) == PyLen(hp[self.data])

\* Datastructure._getitem_extended called with keyparts
getitem_extended(self, data, keyparts, data_root) ==
    LET r == get_object_and_key_parts(self, data, keyparts, data_root, FALSE)
        v == IF r.exc # "" THEN Raise(r.exc) ELSE type_getitem(r.d, r.k)
    IN  IF v.exc # "" /\ self.silent_fail THEN Ok(None) ELSE v

\* ------------------------------------------------------------------------
\* Pattern engine
\* ------------------------------------------------------------------------

\* one pair yielded by a generator: the key string and the value
Item(key, value) == [key |-> key, value |-> value]

\* what a generator produces when it is consumed to its end: the pairs it
\* yields, then the exception it raises ("" when it ends normally)
Gen(out, exc) == [out |-> out, exc |-> exc]

\* WildcardItems counting the elements of a list from 1 (enumerate(v, 1))
WildcardItems_from1(v) ==
    IF v.t = "dict" THEN v.entries
    ELSE [i \in 1..Len(v.items) |-> Pair(IntV(i), v.items[i])]

\* dict.items() / enumerate(list): the (key, value) pairs in iteration order
WildcardItems(v) ==
    IF v.t = "dict" THEN v.entries
    ELSE [i \in 1..Len(v.items) |-> Pair(IntV(i - 1), v.items[i])]

\* str(key) of a dict key or a list index
KeyStr(k) == IF k.t = "int" THEN str(k.n) ELSE k.s

RECURSIVE iterpattern_parts(_, _, _, _)
RECURSIVE wildcard_loop(_, _, _, _, _, _)

\* the for loop of iterpattern over wildcard_iterator, from entry i on
wildcard_loop(self, data, prefix, keys_after, entries, i) ==
    IF i > Len(entries) THEN Gen(<<>>, "")
    ELSE LET wildcard_key == entries[i].k
             wildcard_value == entries[i].v
             sub == IF Len(keys_after) = 0
                    THEN Gen(<<Item(prefix \o KeyStr(wildcard_key), wildcard_value)>>, "")
                    ELSE LET g == iterpattern_parts(self, data, keys_after, wildcard_value)
                         IN  Gen([j \in 1..Len(g.out) |->
                                     Item(prefix \o KeyStr(wildcard_key) \o self.symbol_separator
                                              \o g.out[j].key,
                                          g.out[j].value)],
                                 g.exc)
         IN  IF sub.exc # "" THEN sub
             ELSE LET rest == wildcard_loop(self, data, prefix, keys_after, entries, i + 1)
                  IN  Gen(sub.out \o rest.out, rest.exc)

\* iterpattern once keyparts is known; data is self.data
iterpattern_parts(self, data, keyparts, data_root_arg) ==
    LET data_root == RootOf(data_root_arg, data)
        wild == {i \in 1..Len(keyparts) : keyparts[i] = self.symbol_wildcard}
    IN  IF wild # {}
        THEN LET wildcard_index == CHOOSE i \in wild : \A j \in wild : i <= j
                 keys_before == SubSeq(keyparts, 1, wildcard_index - 1)
                 prefix == join(keys_before, self.symbol_separator)
                               \o (IF Len(keys_before) > 0 THEN self.symbol_separator ELSE <<>>)
                 keys_after == SubSeq(keyparts, wildcard_index + 1, Len(keyparts))
                 target == IF Len(keys_before) > 0
                           THEN getitem_extended(self, data, keys_before, data_root)
                           ELSE Ok(data)
             IN  IF target.exc # "" THEN Gen(<<>>, target.exc)
                 ELSE IF target.val.t \in {"dict", "list", "tuple"}
                      THEN wildcard_loop(self, data, prefix, keys_after,
                                         WildcardItems(target.val), 1)
                 ELSE IF self.silent_fail THEN Gen(<<>>, "")
                 ELSE Gen(<<>>, "ValueError")
        ELSE LET v == getitem_extended(self, data, keyparts, data_root)
             IN  IF v.exc # "" THEN Gen(<<>>, v.exc)
                 ELSE Gen(<<Item(join(keyparts, self.symbol_separator), v.val)>>, "")

\* Datastructure.iterpattern(pattern) for a pattern string
iterpattern(self, hp, pattern) ==
    iterpattern_parts(self, hp[self.data], split(pattern, self.symbol_separator), None)

\* the callables passed as filter_lambda
Lambdas == {"is_none", "not_none", "truthy"}

\* filter_lambda(value)
Call(f, v) ==
    CASE f = "is_none" -> v.t = "none"
      [] f = "not_none" -> v.t # "none"
      [] OTHER -> Truthy(v)

\* the for loop of filterpattern over the pairs of iterpattern, from pair i
\* on; max_count is None or an int
RECURSIVE filter_loop(_, _, _, _, _)
filter_loop(g, filter_lambda, max_count, i, filtered_count) ==
    IF i > Len(g.out) THEN Gen(<<>>, g.exc)
    ELSE IF Call(filter_lambda, g.out[i].value)
         THEN IF max_count.t # "none" /\ filtered_count + 1 >= max_count.n
              THEN Gen(<<g.out[i]>>, "")
              ELSE LET rest == filter_loop(g, filter_lambda, max_count, i + 1, filtered_count + 1)
                   IN  Gen(<<g.out[i]>> \o rest.out, rest.exc)
         ELSE filter_loop(g, filter_lambda, max_count, i + 1, filtered_count)

\* Datastructure.filterpattern; callable is whether filter_lambda is callable
filterpattern(self, hp, pattern, callable, filter_lambda, max_count) ==
    IF ~callable THEN Gen(<<>>, "ValueError")
    ELSE filter_loop(iterpattern(self, hp, pattern), filter_lambda, max_count, 1, 0)

\* the Python slice s[:stop]: a negative stop counts from the end, and the
\* result is clamped to the sequence
SliceTo(s, stop) ==
    LET n == Len(s)
        e == IF stop < 0 THEN (IF stop + n < 0 THEN 0 ELSE stop + n)
             ELSE IF stop > n THEN n ELSE stop
    IN  SubSeq(s, 1, e)

\* Datastructure.key_level_up(key, levels): the slice stop is -levels
key_level_up(self, key, levels) ==
    LET parts == split(key, self.symbol_separator)
    IN  join(SliceTo(parts, 0 - levels), self.symbol_separator)

\* ------------------------------------------------------------------------
\* Inputs
\* ------------------------------------------------------------------------

A == StrV(<<"a">>)

\* the path segments callers use: a name, two indexes, the append symbol and
\* the wildcard
Segs == {<<"a">>, <<"0">>, <<"1">>, DEFAULT_LAST_LIST_ELEMENT, DEFAULT_WILDCARD}

\* segment lists of one and of two segments
Parts1 == {<<x>> : x \in Segs}
Parts2 == {<<x, y>> : x \in Segs, y \in Segs}

\* keys passed to get / set / contains / delete: path strings, an int, and
\* None as a key that is neither a string nor an int
KeyInputs ==
    {StrV(join(p, DEFAULT_SEPARATOR)) : p \in Parts1 \cup Parts2} \cup {IntV(1), None}

\* values assigned by set
SetValues == {None, IntV(0), ListV(<<>>)}

\* patterns passed to iterpattern: every path of one or two segments, and
\* the three-segment patterns that have a wildcard in them
PatternInputs ==
    {join(p, DEFAULT_SEPARATOR) : p \in Parts1 \cup Parts2}
        \cup {join(<<x, y, z>>, DEFAULT_SEPARATOR) :
                  x \in {<<"a">>, <<"1">>, DEFAULT_WILDCARD},
                  y \in {<<"a">>, <<"0">>, DEFAULT_WILDCARD},
                  z \in {<<"a">>, DEFAULT_WILDCARD}}

\* patterns passed to filterpattern
FilterPatternInputs ==
    {join(p, DEFAULT_SEPARATOR) :
        p \in {<<DEFAULT_WILDCARD>>, <<DEFAULT_WILDCARD, <<"a">> >>,
               <<DEFAULT_WILDCARD, DEFAULT_WILDCARD>>, << <<"a">>, DEFAULT_WILDCARD>>,
               << <<"1">>, DEFAULT_WILDCARD>>, << <<"a">>, <<"0">> >>}}

\* max_count arguments: omitted (None), 0, 1, 2
MaxCounts == {None, IntV(0), IntV(1), IntV(2)}

\* keys passed to key_level_up: the empty string and paths of one, two and
\* three segments, one of them with an empty segment
LevelUpKeys ==
    {<<>>} \cup {join(p, DEFAULT_SEPARATOR) :
                    p \in {<< <<"a">> >>, << <<"a">>, <<"0">> >>, << <<"a">>, <<>> >>,
                           << <<"a">>, <<"0">>, <<"1">> >>, << <<"a">>, DEFAULT_WILDCARD, <<"1">> >>}}

\* levels arguments: none, fewer than, as many as and more than the segments
Levels == {0, 1, 2, 3, 4}

\* the containers handed to the constructor
RootData ==
    { ListV(<<DictV(<<Pair(A, IntV(0))>>), ListV(<<IntV(1)>>)>>),
      DictV(<<Pair(A, ListV(<<IntV(1), A>>)),
              Pair(IntV(1), DictV(<<Pair(A, ListV(<<None, IntV(0)>>))>>)),
              Pair(StrV(<<"1">>), IntV(0))>>),
      DictV(<<Pair(A, TupleV(<<A, IntV(0)>>)), Pair(StrV(<<"0">>), ListV(<<>>))>>),
      TupleV(<<ListV(<<A>>), A>>),
      ListV(<<IntV(1), IntV(0)>>),
      ListV(<<>>),
      DictV(<<>>),
      DictV(<<Pair(StrV(DEFAULT_WILDCARD), ListV(<<IntV(0), A>>)),
              Pair(A, ListV(<<None>>))>>) }

\* ------------------------------------------------------------------------
\* State
\* ------------------------------------------------------------------------

VARIABLES
    heap,       \* the container objects: cell -> value
    wrappers,   \* the Datastructure instances: <<first, second>>
    pc,         \* "idle", or "returned" when a call has just returned
    last,       \* the call that has just returned: inputs, outcome, data before
    nops        \* number of set / delete calls issued

vars == <<heap, wrappers, pc, last, nops>>

NoCall == [op |-> "none"]

\* construction: the first wrapper (silent, the default) wraps the container,
\* the second (strict) is constructed from the first wrapper
Init ==
    \E root \in RootData :
        LET c1 == Datastructure_init((1 :> root), ObjectArg(1), TRUE, DEFAULT_WILDCARD,
                                     DEFAULT_SEPARATOR, DEFAULT_LAST_LIST_ELEMENT)
            c2 == Datastructure_init(c1.heap, WrapperArg(c1.self), FALSE, DEFAULT_WILDCARD,
                                     DEFAULT_SEPARATOR, DEFAULT_LAST_LIST_ELEMENT)
        IN  /\ heap = c2.heap
            /\ wrappers = <<c1.self, c2.self>>
            /\ pc = "idle"
            /\ last = NoCall
            /\ nops = 0

\* the structure a wrapper references
Data(w) == heap[wrappers[w].data]

\* value = self[key]
GetItem(w, key) ==
    /\ pc = "idle"
    /\ last' = [op |-> "get", w |-> w, key |-> key, res |-> getitem(wrappers[w], heap, key),
                pre |-> Data(w)]
    /\ pc' = "returned"
    /\ UNCHANGED <<heap, wrappers, nops>>

\* self[key] = value
SetItem(w, key, value) ==
    /\ pc = "idle"
    /\ nops < MaxOps
    /\ LET r == setitem(wrappers[w], heap, key, value)
       IN  /\ heap' = r.heap
           /\ last' = [op |-> "set", w |-> w, key |-> key, value |-> value,
                       res |-> [exc |-> r.exc, val |-> r.val], pre |-> Data(w)]
    /\ pc' = "returned"
    /\ nops' = nops + 1
    /\ UNCHANGED wrappers

\* key in self
Contains(w, key) ==
    /\ pc = "idle"
    /\ last' = [op |-> "has", w |-> w, key |-> key, res |-> contains(wrappers[w], heap, key),
                pre |-> Data(w)]
    /\ pc' = "returned"
    /\ UNCHANGED <<heap, wrappers, nops>>

\* del self[key]
DelItem(w, key) ==
    /\ pc = "idle"
    /\ nops < MaxOps
    /\ LET r == delitem(wrappers[w], heap, key)
       IN  /\ heap' = r.heap
           /\ last' = [op |-> "del", w |-> w, key |-> key,
                       res |-> [exc |-> r.exc, val |-> r.val], pre |-> Data(w)]
    /\ pc' = "returned"
    /\ nops' = nops + 1
    /\ UNCHANGED wrappers

\* len(self)
Len_(w) ==
    /\ pc = "idle"
    /\ last' = [op |-> "len", w |-> w, res |-> Ok(IntV(len(wrappers[w], heap))), pre |-> Data(w)]
    /\ pc' = "returned"
    /\ UNCHANGED <<heap, wrappers, nops>>

\* list(self.iterpattern(pattern))
IterPattern(w, pattern) ==
    /\ pc = "idle"
    /\ last' = [op |-> "iterpattern", w |-> w, pattern |-> pattern,
                gen |-> iterpattern(wrappers[w], heap, pattern), pre |-> Data(w)]
    /\ pc' = "returned"
    /\ UNCHANGED <<heap, wrappers, nops>>

\* list(self.filterpattern(pattern, filter_lambda, max_count))
FilterPattern(w, pattern, callable, filter_lambda, max_count) ==
    /\ pc = "idle"
    /\ last' = [op |-> "filterpattern", w |-> w, pattern |-> pattern, callable |-> callable,
                filter_lambda |-> filter_lambda, max_count |-> max_count,
                gen |-> filterpattern(wrappers[w], heap, pattern, callable, filter_lambda,
                                      max_count),
                pre |-> Data(w)]
    /\ pc' = "returned"
    /\ UNCHANGED <<heap, wrappers, nops>>

\* self.key_level_up(key, levels)
KeyLevelUp(w, key, levels) ==
    /\ pc = "idle"
    /\ last' = [op |-> "key_level_up", w |-> w, key |-> StrV(key), levels |-> levels,
                res |-> Ok(StrV(key_level_up(wrappers[w], key, levels))), pre |-> Data(w)]
    /\ pc' = "returned"
    /\ UNCHANGED <<heap, wrappers, nops>>

\* the caller takes the result and goes on
Return ==
    /\ pc = "returned"
    /\ pc' = "idle"
    /\ last' = NoCall
    /\ UNCHANGED <<heap, wrappers, nops>>

Next ==
    \/ \E w \in 1..2, key \in KeyInputs : GetItem(w, key)
    \/ \E w \in 1..2, key \in KeyInputs, value \in SetValues : SetItem(w, key, value)
    \/ \E w \in 1..2, key \in KeyInputs : Contains(w, key)
    \/ \E w \in 1..2, key \in KeyInputs : DelItem(w, key)
    \/ \E w \in 1..2 : Len_(w)
    \/ \E w \in 1..2, pattern \in PatternInputs : IterPattern(w, pattern)
    \/ \E w \in 1..2, pattern \in FilterPatternInputs, f \in Lambdas, max_count \in MaxCounts :
           FilterPattern(w, pattern, TRUE, f, max_count)
    \/ \E w \in 1..2, pattern \in FilterPatternInputs :
           FilterPattern(w, pattern, FALSE, "truthy", None)
    \/ \E w \in 1..2, key \in LevelUpKeys, levels \in Levels : KeyLevelUp(w, key, levels)
    \/ Return

Spec == Init /\ [][Next]_vars

\* ------------------------------------------------------------------------
\* Vocabulary of the claims
\* ------------------------------------------------------------------------

\* the wrapper that served the last call, and the segments of its key
LastSelf == wrappers[last.w]
KeyParts(self, key) ==
    split(IF key.t = "int" THEN str(key.n) ELSE key.s, self.symbol_separator)
Front(s) == SubSeq(s, 1, Len(s) - 1)
Final(s) == s[Len(s)]

\* the entry of container v that a segment denotes: an in-range index of a
\* Sequence (list), a key of a Mapping (dict, the integer spelling first).
\* A tuple is a supported container, but the resolver applies the index rule
\* to lists only, so no segment denotes an entry of a tuple.
NotFound == [found |-> FALSE, val |-> None]
Found(v) == [found |-> TRUE, val |-> v]
Entry(v, seg) ==
    IF v.t = "list"
    THEN IF isdigit(seg) /\ int(seg) < Len(v.items) THEN Found(v.items[int(seg) + 1])
         ELSE NotFound
    ELSE IF v.t = "dict"
    THEN IF isdigit(seg) /\ \E i \in 1..Len(v.entries) : v.entries[i].k = IntV(int(seg))
         THEN Found((CHOOSE e \in {v.entries[i] : i \in 1..Len(v.entries)} : e.k = IntV(int(seg))).v)
         ELSE IF \E i \in 1..Len(v.entries) : v.entries[i].k = StrV(seg)
         THEN Found((CHOOSE e \in {v.entries[i] : i \in 1..Len(v.entries)} : e.k = StrV(seg)).v)
         ELSE NotFound
    ELSE NotFound

\* the value a list of segments denotes below v
RECURSIVE Lookup(_, _)
Lookup(v, parts) ==
    IF Len(parts) = 0 THEN Found(v)
    ELSE LET e == Entry(v, parts[1])
         IN  IF e.found THEN Lookup(e.val, Tail(parts)) ELSE NotFound

\* every segment but the last resolves to an existing container
IntermediatesResolve(data, parts) ==
    LET p == Lookup(data, Front(parts))
    IN  p.found /\ p.val.t \in CONTAINER_TYPES_SUPPORTED

\* the container the last segment is applied to
Parent(data, parts) == Lookup(data, Front(parts)).val

\* the last segment names an entry that assignment can write: any key of a
\* Mapping other than the append symbol, or an existing index of a Sequence
Assignable(self, data, parts) ==
    LET parent == Parent(data, parts)
    IN  \/ parent.t = "dict" /\ Final(parts) # self.symbol_last_list_element
        \/ parent.t = "list" /\ isdigit(Final(parts)) /\ int(Final(parts)) < Len(parent.items)

NonWildcard(self, parts) == \A i \in 1..Len(parts) : parts[i] # self.symbol_wildcard

\* ------------------------------------------------------------------------
\* C1
\* ------------------------------------------------------------------------

C1_Valid ==
    /\ last.op = "set"
    /\ last.key.t = "str"
    /\ NonWildcard(LastSelf, KeyParts(LastSelf, last.key))
    /\ IntermediatesResolve(last.pre, KeyParts(LastSelf, last.key))

\* C1 as stated: after set(P, V) with a non-wildcard path P whose
\* intermediate segments resolve to containers, get(P) on the same wrapper
\* returns V.
C1_Original ==
    C1_Valid => getitem(LastSelf, heap, last.key) = Ok(last.value)

\* C1 amended: after set(P, V) with a non-wildcard path P whose intermediate
\* segments resolve to containers and whose last segment is a key of a
\* Mapping other than the append symbol, or an existing index of a Sequence,
\* set raises nothing and get(P) on the same wrapper returns V.
C1_RoundTrip ==
    (C1_Valid /\ Assignable(LastSelf, last.pre, KeyParts(LastSelf, last.key)))
        => /\ last.res.exc = ""
           /\ getitem(LastSelf, heap, last.key) = Ok(last.value)

\* a value other than None was stored by a strict wrapper in a nested Sequence
C1_Witness ==
    /\ C1_Valid
    /\ Assignable(LastSelf, last.pre, KeyParts(LastSelf, last.key))
    /\ Len(KeyParts(LastSelf, last.key)) = 2
    /\ Parent(last.pre, KeyParts(LastSelf, last.key)).t = "list"
    /\ last.value # None
    /\ ~LastSelf.silent_fail
    /\ heap[LastSelf.data] # last.pre

\* ------------------------------------------------------------------------
\* C2
\* ------------------------------------------------------------------------

\* the segments denote an existing entry: a key of a Mapping or an in-range
\* index of a Sequence
ExistingEntry(data, parts) ==
    /\ IntermediatesResolve(data, parts)
    /\ Parent(data, parts).t \in {"dict", "list"}
    /\ Entry(Parent(data, parts), Final(parts)).found

C2_Resolves ==
    /\ last.op = "del"
    /\ last.key.t \in {"str", "int"}
    /\ ExistingEntry(last.pre, KeyParts(LastSelf, last.key))

BothSpellings(d, seg) ==
    /\ isdigit(seg)
    /\ \E i \in 1..Len(d.entries) : d.entries[i].k = IntV(int(seg))
    /\ \E i \in 1..Len(d.entries) : d.entries[i].k = StrV(seg)

C3_Append ==
    /\ last.op = "set"
    /\ last.key.t = "str"
    /\ Final(KeyParts(LastSelf, last.key)) = LastSelf.symbol_last_list_element
    /\ Lookup(last.pre, Front(KeyParts(LastSelf, last.key))).found
    /\ Lookup(last.pre, Front(KeyParts(LastSelf, last.key))).val.t = "list"

\* C3: set(pathToSeq + separator + appendSymbol, V) on a Sequence of length L
\* (the root included) raises nothing, makes its length L + 1, leaves the
\* elements 0..L-1 unchanged, and get of index L in that Sequence returns V.
C3_AppendGrowth ==
    C3_Append =>
        LET path == Front(KeyParts(LastSelf, last.key))
            before == Lookup(last.pre, path).val
            now == Lookup(heap[LastSelf.data], path)
            L == Len(before.items)
        IN  /\ last.res.exc = ""
            /\ now.found
            /\ now.val.t = "list"
            /\ Len(now.val.items) = L + 1
            /\ SubSeq(now.val.items, 1, L) = before.items
            /\ getitem(LastSelf, heap,
                       StrV(join(Append(path, str(L)), LastSelf.symbol_separator)))
                   = Ok(last.value)

\* a value other than None was appended to a non-empty nested Sequence
C3_Witness ==
    /\ C3_Append
    /\ Len(KeyParts(LastSelf, last.key)) = 2
    /\ Len(Lookup(last.pre, Front(KeyParts(LastSelf, last.key))).val.items) >= 1
    /\ last.value # None

\* ------------------------------------------------------------------------
\* C4
\* ------------------------------------------------------------------------

\* the pattern of the last call is P + separator + wildcard, where the path P
\* resolves to a Sequence (a list, or a tuple, which iterpattern enumerates
\* alike)
C4_Pattern ==
    /\ last.op = "iterpattern"
    /\ Len(split(last.pattern, LastSelf.symbol_separator)) >= 2
    /\ Final(split(last.pattern, LastSelf.symbol_separator)) = LastSelf.symbol_wildcard
    /\ Lookup(last.pre, Front(split(last.pattern, LastSelf.symbol_separator))).found
    /\ Lookup(last.pre, Front(split(last.pattern, LastSelf.symbol_separator))).val.t
           \in {"list", "tuple"}

\* the pairs (P + separator + i, element i) for i = 0 .. N-1, in that order
C4_Expected ==
    LET P == Front(split(last.pattern, LastSelf.symbol_separator))
        seq == Lookup(last.pre, P).val
    IN  Gen([i \in 1..Len(seq.items) |->
                Item(join(Append(P, str(i - 1)), LastSelf.symbol_separator), seq.items[i])],
            "")

\* C4 as stated: when P resolves to a Sequence of length N,
\* iterpattern(P + separator + wildcard) yields exactly the N pairs
\* (P + separator + i, element i) in ascending index order.
C4_Original ==
    C4_Pattern => last.gen = C4_Expected

\* C4 amended: when P has no segment equal to the wildcard symbol and
\* resolves to a Sequence of length N, iterpattern(P + separator + wildcard)
\* yields exactly the N pairs (P + separator + i, element i) in ascending
\* index order, and nothing for N = 0.
C4_WildcardCompleteness ==
    (C4_Pattern /\ NonWildcard(LastSelf, Front(split(last.pattern, LastSelf.symbol_separator))))
        => last.gen = C4_Expected

\* a Sequence of two or more elements, two segments deep, was expanded
C4_Witness ==
    /\ C4_Pattern
    /\ NonWildcard(LastSelf, Front(split(last.pattern, LastSelf.symbol_separator)))
    /\ Len(split(last.pattern, LastSelf.symbol_separator)) = 3
    /\ Len(last.gen.out) >= 2

\* ------------------------------------------------------------------------
\* C5
\* ------------------------------------------------------------------------

\* the segments cannot be resolved below v: a segment names no entry of the
\* Mapping or Sequence it addresses (key absent, index out of range, or a
\* non-numeric segment against a Sequence), or an intermediate segment
\* resolves to a Leaf
RECURSIVE Unresolvable(_, _)
Unresolvable(v, parts) ==
    IF v.t \notin {"list", "dict"} THEN FALSE
    ELSE LET e == Entry(v, parts[1])
         IN  IF ~e.found THEN TRUE
             ELSE IF Len(parts) = 1 THEN FALSE
             ELSE IF e.val.t \notin CONTAINER_TYPES_SUPPORTED THEN TRUE
             ELSE Unresolvable(e.val, Tail(parts))

C5_Unresolvable ==
    /\ last.op = "get"
    /\ last.key.t \in {"str", "int"}
    /\ Unresolvable(last.pre, KeyParts(LastSelf, last.key))

FailingKey ==
    IF last.key.t \notin {"str", "int"} THEN TRUE
    ELSE Unresolvable(last.pre, KeyParts(LastSelf, last.key))

ElementHit ==
    /\ last.key.t \in {"str", "int"}
    /\ IntermediatesResolve(last.pre, KeyParts(LastSelf, last.key))
    /\ Parent(last.pre, KeyParts(LastSelf, last.key)).t = "list"
    /\ isdigit(Final(KeyParts(LastSelf, last.key)))
    /\ \E i \in 1..Len(Parent(last.pre, KeyParts(LastSelf, last.key)).items) :
           Parent(last.pre, KeyParts(LastSelf, last.key)).items[i]
               = IntV(int(Final(KeyParts(LastSelf, last.key))))

C7_AlwaysPropagated ==
    (last.op \in {"get", "set"} /\ last.key.t \notin {"str", "int"})
        => last.res.exc = "ValueError"

\* ------------------------------------------------------------------------
\* C8
\* ------------------------------------------------------------------------

\* wrapper self with its failure mode set to silent_fail
WithMode(self, silent_fail) == [self EXCEPT !.silent_fail = silent_fail]

\* C8: the wrapper constructed from the container and the wrapper
\* constructed from that wrapper reference the same container; after any
\* set, append or delete through either, get, has and length through the
\* other and through the original container reference observe the same
\* state.
C8_NoCopy ==
    /\ wrappers[1].data = 1
    /\ wrappers[2].data = wrappers[1].data
    /\ heap[wrappers[2].data] = heap[1]
    /\ len(wrappers[1], heap) = len(wrappers[2], heap)
    /\ last.op \in {"set", "del"} =>
           LET other == wrappers[3 - last.w]
           IN  /\ heap[other.data] = heap[LastSelf.data]
               /\ contains(other, heap, last.key) = contains(LastSelf, heap, last.key)
               /\ \A m \in BOOLEAN :
                      getitem(WithMode(other, m), heap, last.key)
                          = getitem(WithMode(LastSelf, m), heap, last.key)

\* a value stored through the second wrapper is read through the first
C8_Witness ==
    /\ last.op = "set"
    /\ last.w = 2
    /\ last.value # None
    /\ heap[wrappers[1].data] # last.pre
    /\ getitem(wrappers[1], heap, last.key) = Ok(last.value)

\* ------------------------------------------------------------------------
\* C9
\* ------------------------------------------------------------------------

\* the last call is a set whose last segment is a number applied to a Sequence
C9_IndexSet ==
    /\ last.op = "set"
    /\ last.key.t \in {"str", "int"}
    /\ IntermediatesResolve(last.pre, KeyParts(LastSelf, last.key))
    /\ Parent(last.pre, KeyParts(LastSelf, last.key)).t = "list"
    /\ isdigit(Final(KeyParts(LastSelf, last.key)))

\* C9: set with a numeric last segment at or past the length of the Sequence
\* is never an append: a strict wrapper raises IndexError, a silent one does
\* nothing, and the structure is unchanged; below the length it replaces
\* exactly that element and the length is unchanged.
C9_NoImplicitAppend ==
    C9_IndexSet =>
        LET parts == KeyParts(LastSelf, last.key)
            n == int(Final(parts))
            before == Parent(last.pre, parts)
            now == Lookup(heap[LastSelf.data], Front(parts))
        IN  IF n >= Len(before.items)
            THEN /\ heap[LastSelf.data] = last.pre
                 /\ last.res.exc = IF LastSelf.silent_fail THEN "" ELSE "IndexError"
            ELSE /\ last.res.exc = ""
                 /\ now.found
                 /\ now.val.t = "list"
                 /\ Len(now.val.items) = Len(before.items)
                 /\ \A i \in 1..Len(before.items) :
                        now.val.items[i] = IF i = n + 1 THEN last.value ELSE before.items[i]

\* a strict wrapper refused the index exactly one past the end of a
\* non-empty nested Sequence
C9_Witness ==
    /\ C9_IndexSet
    /\ ~LastSelf.silent_fail
    /\ Len(KeyParts(LastSelf, last.key)) = 2
    /\ Len(Parent(last.pre, KeyParts(LastSelf, last.key)).items) >= 1
    /\ int(Final(KeyParts(LastSelf, last.key)))
           = Len(Parent(last.pre, KeyParts(LastSelf, last.key)).items)
    /\ last.res.exc = "IndexError"

\* ------------------------------------------------------------------------
\* C10
\* ------------------------------------------------------------------------

\* C10: filterpattern(pattern, predicate, maxCount) yields, in iterpattern
\* order, exactly the first min(maxCount, M) pairs of iterpattern(pattern)
\* whose value satisfies the predicate, M being their number, for every
\* maxCount >= 0 (nothing for maxCount = 0), and all M with maxCount omitted.
C10_FirstMatches ==
    (last.op = "filterpattern" /\ last.callable) =>
        LET all == iterpattern(LastSelf, heap, last.pattern).out
            hits == SelectSeq(all, LAMBDA it : Call(last.filter_lambda, it.value))
            M == Len(hits)
            n == IF last.max_count.t = "none" THEN M
                 ELSE IF last.max_count.n < M THEN last.max_count.n ELSE M
        IN  last.gen.out = SubSeq(hits, 1, n)

\* ------------------------------------------------------------------------
\* C11
\* ------------------------------------------------------------------------

\* the first n - levels segments of a key of n segments, none when
\* levels >= n, rejoined with the separator
DropLast(self, key, levels) ==
    LET parts == split(key, self.symbol_separator)
        n == Len(parts)
    IN  join(SubSeq(parts, 1, IF levels >= n THEN 0 ELSE n - levels), self.symbol_separator)

\* C11: key_level_up(key, levels) returns the segments of key with the last
\* `levels` segments dropped, rejoined with the separator, for every
\* levels >= 0 (the key unchanged for levels = 0, the empty path for levels
\* at or above the number of segments), and leaves the structure unchanged.
C11_DropsLastLevels ==
    (last.op = "key_level_up" /\ last.levels >= 0) =>
        /\ last.res.exc = ""
        /\ last.res.val = StrV(DropLast(LastSelf, last.key.s, last.levels))
        /\ Data(last.w) = last.pre

\* ------------------------------------------------------------------------
\* C12
\* ------------------------------------------------------------------------

\* the position of the first wildcard segment of a segment list
FirstWildcard(self, keyparts) ==
    CHOOSE i \in 1..Len(keyparts) :
        /\ keyparts[i] = self.symbol_wildcard
        /\ \A j \in 1..(i - 1) : keyparts[j] # self.symbol_wildcard

RECURSIVE Expand(_, _, _)
RECURSIVE ExpandEntries(_, _, _, _, _)

\* the pairs under the entries of a wildcard from entry i on, each entry's
\* pairs being those of expanding keys_after against the entry's own value
ExpandEntries(self, prefix, keys_after, entries, i) ==
    IF i > Len(entries) THEN Gen(<<>>, "")
    ELSE LET key == prefix \o KeyStr(entries[i].k)
             sub == IF Len(keys_after) = 0 THEN Gen(<<Item(key, entries[i].v)>>, "")
                    ELSE LET g == Expand(self, entries[i].v, keys_after)
                         IN  Gen([j \in 1..Len(g.out) |->
                                     Item(key \o self.symbol_separator \o g.out[j].key,
                                          g.out[j].value)],
                                 g.exc)
         IN  IF sub.exc # "" THEN sub
             ELSE LET rest == ExpandEntries(self, prefix, keys_after, entries, i + 1)
                  IN  Gen(sub.out \o rest.out, rest.exc)

\* expanding a segment list against the value `root` itself: a list without
\* wildcard is looked up in root, the first wildcard fans out over the
\* container its `before` segments address in root
Expand(self, root, keyparts) ==
    IF NonWildcard(self, keyparts) THEN iterpattern_parts(self, root, keyparts, root)
    ELSE LET wildcard_index == FirstWildcard(self, keyparts)
             keys_before == SubSeq(keyparts, 1, wildcard_index - 1)
             prefix == join(keys_before, self.symbol_separator)
                           \o (IF Len(keys_before) > 0 THEN self.symbol_separator ELSE <<>>)
             keys_after == SubSeq(keyparts, wildcard_index + 1, Len(keyparts))
             target == IF Len(keys_before) > 0
                       THEN getitem_extended(self, root, keys_before, root)
                       ELSE Ok(root)
         IN  IF target.exc # "" THEN Gen(<<>>, target.exc)
             ELSE IF target.val.t \in {"dict", "list", "tuple"}
                  THEN ExpandEntries(self, prefix, keys_after, WildcardItems(target.val), 1)
             ELSE IF self.silent_fail THEN Gen(<<>>, "")
             ELSE Gen(<<>>, "ValueError")

\* an iterpattern call whose pattern has segments after its first wildcard
C12_Nested ==
    /\ last.op = "iterpattern"
    /\ LET parts == split(last.pattern, LastSelf.symbol_separator)
       IN  /\ ~NonWildcard(LastSelf, parts)
           /\ FirstWildcard(LastSelf, parts) < Len(parts)

\* C12: for each (key, value) entry produced by the first wildcard of a
\* pattern with non-empty `after` segments, the pairs iterpattern yields
\* under that key are exactly those of expanding `after` against `value`
\* itself, never against the wrapper's root container, prefixed with
\* before/key; also when `after` starts with another wildcard and when
\* `value` is an empty container or a falsy leaf.
C12_RootedAtValue ==
    C12_Nested =>
        last.gen.out = Expand(LastSelf, last.pre,
                              split(last.pattern, LastSelf.symbol_separator)).out

====
